---- MODULE Spec2Model ----
(***************************************************************************)
(* Model of the go-postgresql benchmark programs.                          *)
(*                                                                         *)
(* Three programs run the same seven phases against one table "users":     *)
(*   PQ    config/env.go (package main, lib/pq, multi-row statements)      *)
(*   GORM  the ORM program with bulk Update/Delete (Pluck + one statement) *)
(*   PGX   the pgx program (pgx.Batch inserts, per-id Update/Delete)       *)
(* A run connects, runs the seven phases and prints the summary; a clock   *)
(* counts the ticks the store calls take.                                  *)
(* The model has one action per program step; `variant` selects the        *)
(* program.  The store is the table as a sequence of rows in heap order    *)
(* (the order a SELECT without ORDER BY returns) plus the id sequence.     *)
(***************************************************************************)
EXTENDS Integers, Sequences, FiniteSets, TLC

VARIABLES
    variant,      \* which program runs
    cfg,          \* DatabaseConfig
    users,        \* table users: sequence of rows [id, name, email], heap order
    nextId,       \* next value of the SERIAL sequence users_id_seq
    pc,           \* position of main()
    i,            \* loop variable of the Seed / Create loop
    ids,          \* ids / userIDs / deleteIDs / userIDsToDelete
    userCount,    \* var userCount
    started,      \* phases whose start mark (xStart := time.Now()) was taken
    out,          \* phase result lines printed (each carries xDuration)
    summary,      \* lines of the PERFORMANCE SUMMARY block
    failed,       \* errors that occurred: set of <<phase, kind>>
    seedChunks,   \* <<i, end>> of every bulk insert issued by Seed
    createChunks, \* <<i, end>> of every bulk insert issued by Create
    pending,      \* pgx batch in flight: results not yet read
    snap,         \* table as it was when the current phase started
    now,          \* the clock: time.Now(), in ticks since totalStart
    startAt,      \* xStart of the phase whose window is open
    timing,       \* [start, end] of every xDuration recorded, in order
    total         \* totalDuration of the summary block

vars == <<variant, cfg, users, nextId, pc, i, ids, userCount, started, out,
          summary, failed, seedChunks, createChunks, pending, snap,
          now, startAt, timing, total>>

-----------------------------------------------------------------------------
(* Bounds of the model *)

MaxSmallInitial == 3
MaxBatch == 2
MaxUpdate == 2
MaxDelete == 2
MaxNew == 2
MaxOver == 2
LargeBatch == 600
MaxPrior == 2
MaxFailIdx == 2
MaxConnect == 1

(* Program constants *)

DeleteOffset == 1000

Variants == {"PQ", "GORM", "PGX"}

Min(a, b) == IF a < b THEN a ELSE b
Max(a, b) == IF a > b THEN a ELSE b

-----------------------------------------------------------------------------
(* Configuration *)

DefaultConfig ==
    [InitialUsersCount |-> 50000, BatchSize |-> 5000, UpdateCount |-> 5000,
     DeleteCount |-> 2500, NewUsersCount |-> 10000]

SmallConfigs ==
    [InitialUsersCount : 0..MaxSmallInitial, BatchSize : 1..MaxBatch,
     UpdateCount : 0..MaxUpdate, DeleteCount : 0..MaxDelete,
     NewUsersCount : 0..MaxNew]

LargeConfigs ==
    [InitialUsersCount : {DeleteOffset + x : x \in 0..MaxOver},
     BatchSize : {LargeBatch},
     UpdateCount : {0, 1}, DeleteCount : 1..MaxDelete,
     NewUsersCount : {1}]

(* The configuration of the documented end-to-end scenario *)
ScenarioConfig ==
    [InitialUsersCount |-> 10, BatchSize |-> 3, UpdateCount |-> 4,
     DeleteCount |-> 2, NewUsersCount |-> 5]

(* GetBenchmarkConfig(preset): the preset configurations; any other string *)
(* yields the medium values.                                               *)
GetBenchmarkConfig(preset) ==
    CASE preset = "small" ->
            [InitialUsersCount |-> 1000, BatchSize |-> 100, UpdateCount |-> 100,
             DeleteCount |-> 50, NewUsersCount |-> 200]
      [] preset = "large" ->
            [InitialUsersCount |-> 100000, BatchSize |-> 5000,
             UpdateCount |-> 10000, DeleteCount |-> 5000, NewUsersCount |-> 20000]
      [] preset = "xlarge" ->
            [InitialUsersCount |-> 1000000, BatchSize |-> 10000,
             UpdateCount |-> 50000, DeleteCount |-> 25000,
             NewUsersCount |-> 100000]
      [] OTHER ->
            [InitialUsersCount |-> 10000, BatchSize |-> 1000, UpdateCount |-> 1000,
             DeleteCount |-> 500, NewUsersCount |-> 2000]

PresetNames == {"small", "medium", "large", "xlarge", "", "huge"}

(* A configuration that, like DefaultConfig, updates more rows than the    *)
(* Delete select skips.  It is run by the programs that update with one    *)
(* statement.                                                              *)
OverlapConfig ==
    [InitialUsersCount |-> DeleteOffset + 2, BatchSize |-> LargeBatch,
     UpdateCount |-> DeleteOffset + 1, DeleteCount |-> 1, NewUsersCount |-> 1]

Configs == SmallConfigs \cup LargeConfigs \cup {ScenarioConfig}

(* DatabaseConfig values with BatchSize = 0; nothing in GetConfig or main  *)
(* looks at the values before they are used.                               *)
InvalidConfigs ==
    [InitialUsersCount : 0..MaxSmallInitial, BatchSize : {0},
     UpdateCount : {0, MaxUpdate}, DeleteCount : {0, MaxDelete},
     NewUsersCount : 0..MaxNew]

-----------------------------------------------------------------------------
(* fmt.Sprintf("<prefix>%06d<suffix>", n): the decimal digits of n, padded  *)
(* with zeros on the left to at least six digits.                          *)

RECURSIVE Digits(_)
Digits(n) == IF n < 10 THEN <<n>> ELSE Append(Digits(n \div 10), n % 10)

Pad6(n) ==
    LET d == Digits(n)
    IN  IF Len(d) >= 6 THEN d
        ELSE [k \in 1..6 |-> IF k <= 6 - Len(d) THEN 0 ELSE d[k - (6 - Len(d))]]

Fmt06(prefix, n, suffix) == [pre |-> prefix, num |-> Pad6(n), suf |-> suffix]

Lit(s) == [pre |-> s, num |-> <<>>, suf |-> ""]

SeedRecordZeroBased(j) ==
    [name |-> Fmt06("User_", j, ""),
     email |-> Fmt06("user", j, "@example.com")]

SeedRecord(j) ==
    [name |-> Fmt06("User_", j + 1, ""),
     email |-> Fmt06("user", j + 1, "@example.com")]

NewRecordZeroBased(j) ==
    [name |-> Fmt06("New_User_", j, ""),
     email |-> Fmt06("newuser", j, "@example.com")]

NewRecordSeedEmail(j) ==
    [name |-> Fmt06("New_User_", j + 1, ""),
     email |-> Fmt06("user", j + 1, "@example.com")]

NewRecord(j) ==
    [name |-> Fmt06("New_User_", j + 1, ""),
     email |-> Fmt06("newuser", j + 1, "@example.com")]

NextIndexStuck(k, batch) == k

(* The loop step i += cfg.BatchSize *)
NextIndex(k, batch) == k + batch

ChunkEndNoClamp(k, count, batch) == k + batch

ChunkEnd(k, count, batch) == IF k + batch > count THEN count ELSE k + batch

-----------------------------------------------------------------------------
(* The store: table users (id SERIAL PRIMARY KEY, name, email UNIQUE)       *)

Row(id, rec) == [id |-> id, name |-> rec.name, email |-> rec.email]

Emails(u) == {u[k].email : k \in DOMAIN u}

IdsOf(u) == {u[k].id : k \in DOMAIN u}

InsertReusesIds(u, nid, recs) ==
    [ok |-> TRUE,
     users |-> u \o [m \in 1..Len(recs) |-> Row(Len(u) + m, recs[m])],
     nextId |-> nid + Len(recs),
     errAt |-> Len(recs)]

(* INSERT of the records recs (one multi-row statement, one ORM create or   *)
(* one pgx batch in its implicit transaction).  Every row draws its id from *)
(* the sequence; a row whose email is already present violates the UNIQUE  *)
(* constraint, the whole insert is rolled back and the sequence values      *)
(* drawn so far stay consumed.  errAt is the 0-based index of that row.     *)
Insert(u, nid, recs) ==
    LET n == Len(recs)
        all == Emails(u) \cup {recs[m].email : m \in 1..n}
        dup(m) == \/ recs[m].email \in Emails(u)
                  \/ \E l \in 1..(m - 1) : recs[l].email = recs[m].email
    IN  IF Cardinality(all) = Cardinality(Emails(u)) + n
        THEN [ok |-> TRUE,
              users |-> u \o [m \in 1..n |-> Row(nid + m - 1, recs[m])],
              nextId |-> nid + n,
              errAt |-> n]
        ELSE LET bad == CHOOSE m \in 1..n :
                            dup(m) /\ \A l \in 1..(m - 1) : ~dup(l)
             IN  [ok |-> FALSE, users |-> u, nextId |-> nid + bad,
                  errAt |-> bad - 1]

TruncateKeepsRows == [users |-> users, nextId |-> nextId]

TruncateNoRestart == [users |-> <<>>, nextId |-> nextId]

(* TRUNCATE TABLE users RESTART IDENTITY *)
Truncate == [users |-> <<>>, nextId |-> 1]

(* SELECT COUNT( * ) FROM users *)
Count(u) == Len(u)

(* SELECT id FROM users OFFSET offset LIMIT limit: no ORDER BY, the rows    *)
(* come in heap order.                                                     *)
SelectIds(u, limit, offset) ==
    [k \in 1..Min(limit, Max(0, Len(u) - offset)) |-> u[offset + k].id]

(* The name the Update phase of program v writes for row id *)
UpdatedName(v, id) ==
    CASE v = "PQ" -> Lit("Updated_User_Bulk_PQ")
      [] v = "GORM" -> Lit("Updated_User_Bulk")
      [] v = "PGX" -> Fmt06("Updated_User_", id, "")

(* UPDATE users SET name = .. WHERE id IN idset, as program v issues it.    *)
(* The new row versions either take the place of the old ones or are       *)
(* written at the end of the heap (reloc).                                  *)
UpdateNames(u, idset, v, reloc) ==
    LET upd(r) == [r EXCEPT !.name = UpdatedName(v, r.id)]
        hit == SelectSeq(u, LAMBDA r : r.id \in idset)
    IN  IF reloc
        THEN SelectSeq(u, LAMBDA r : r.id \notin idset)
                 \o [k \in 1..Len(hit) |-> upd(hit[k])]
        ELSE [k \in DOMAIN u |-> IF u[k].id \in idset THEN upd(u[k]) ELSE u[k]]

(* DELETE FROM users WHERE id IN idset *)
DeleteRows(u, idset) == SelectSeq(u, LAMBDA r : r.id \notin idset)

-----------------------------------------------------------------------------
(* Tables the run may find: the two rows of the schema script, or the      *)
(* leftover of an earlier run.                                             *)

InitSqlTable ==
    [users |-> <<[id |-> 1, name |-> Lit("Alice"), email |-> Lit("alice@example.com")],
                 [id |-> 2, name |-> Lit("Bob"), email |-> Lit("bob@example.com")]>>,
     nextId |-> 3]

LeftoverTable(p) ==
    [users |-> [k \in 1..p |-> Row(k, SeedRecord(k - 1))], nextId |-> p + 1]

PriorTables == {InitSqlTable} \cup {LeftoverTable(p) : p \in 0..MaxPrior}

-----------------------------------------------------------------------------
(* Phases and positions of main() *)

PhaseOrder ==
    <<"Reset", "Seed", "ReadCount", "Update", "Delete", "Create", "FinalReadCount">>

Phases == {PhaseOrder[k] : k \in 1..Len(PhaseOrder)}

StartOf ==
    [Reset |-> "ResetStart", Seed |-> "SeedStart", ReadCount |-> "ReadStart",
     Update |-> "UpdateStart", Delete |-> "DeleteStart", Create |-> "CreateStart",
     FinalReadCount |-> "FinalReadStart"]

BodyOf ==
    [Reset |-> "ResetExec", Seed |-> "SeedLoop", ReadCount |-> "ReadExec",
     Update |-> "UpdateSelect", Delete |-> "DeleteSelect", Create |-> "CreateLoop",
     FinalReadCount |-> "FinalReadExec"]

AfterPhaseSkipsDelete(p) ==
    CASE p = "Reset" -> "SeedStart"
      [] p = "Seed" -> "ReadStart"
      [] p = "ReadCount" -> "UpdateStart"
      [] p = "Update" -> "CreateStart"
      [] p = "Delete" -> "CreateStart"
      [] p = "Create" -> "FinalReadStart"
      [] p = "FinalReadCount" -> "Summary"

(* The statement that follows phase p in main() *)
AfterPhase(p) ==
    CASE p = "Reset" -> "SeedStart"
      [] p = "Seed" -> "ReadStart"
      [] p = "ReadCount" -> "UpdateStart"
      [] p = "Update" -> "DeleteStart"
      [] p = "Delete" -> "CreateStart"
      [] p = "Create" -> "FinalReadStart"
      [] p = "FinalReadCount" -> "Summary"

NoCount == -1
NoBatch == [n |-> 0, errAt |-> 0, phase |-> "none"]

Line(p, n) == [phase |-> p, rows |-> n]

SummaryLinesCreateFirst ==
    <<"Reset", "Seed", "ReadCount", "Update", "Create", "Delete",
      "FinalReadCount", "Total">>

SummaryLines ==
    <<"Reset", "Seed", "ReadCount", "Update", "Delete", "Create",
      "FinalReadCount", "Total">>

(* totalStart := time.Now() is the first statement of main *)
TotalStart == 0

InitFrom(configs) ==
    /\ variant \in Variants
    /\ cfg \in configs
    /\ \E t \in PriorTables : users = t.users /\ nextId = t.nextId
    /\ pc = "Connect"
    /\ i = 0
    /\ ids = <<>>
    /\ userCount = 0
    /\ started = <<>>
    /\ out = <<>>
    /\ summary = <<>>
    /\ failed = {}
    /\ seedChunks = <<>>
    /\ createChunks = <<>>
    /\ pending = NoBatch
    /\ snap = users
    /\ now = TotalStart
    /\ startAt = TotalStart
    /\ timing = <<>>
    /\ total = 0

(* The preset "small" is run by the PQ program; the tables of the other    *)
(* presets have ten thousand rows and more.                                *)
Init ==
    \/ InitFrom(Configs)
    \/ InitFrom({OverlapConfig}) /\ variant \in {"PQ", "GORM"}
    \/ InitFrom({GetBenchmarkConfig("small")}) /\ variant = "PQ"

(* The same programs when the configuration may also have BatchSize = 0 *)
InitAnyConfig == InitFrom(Configs \cup InvalidConfigs)

(* log.Fatalf: the message is logged and the process exits with status 1;  *)
(* nothing after it runs.                                                   *)
Fatal(p, kind) ==
    /\ pc' = "Aborted"
    /\ failed' = failed \cup {<<p, kind>>}

(* xDuration := time.Since(xStart); fmt.Printf(result line) *)
Finish(p, n) ==
    /\ out' = Append(out, Line(p, n))
    /\ pc' = AfterPhase(p)

ElapseFromTotalStart(d) ==
    /\ now' = now + d
    /\ timing' = IF Len(out') > Len(out)
                 THEN Append(timing, [start |-> TotalStart, end |-> now + d])
                 ELSE timing
    /\ UNCHANGED <<startAt, total>>

(* A call that goes to the store takes one tick (d = 1); a step that does  *)
(* not, none.  A step that printed a result line recorded its xDuration.    *)
Elapse(d) ==
    /\ now' = now + d
    /\ timing' = IF Len(out') > Len(out)
                 THEN Append(timing, [start |-> startAt, end |-> now + d])
                 ELSE timing
    /\ UNCHANGED <<startAt, total>>

(* The timers that are running: started with x := time.Now() and not yet   *)
(* read with time.Since(x).  totalStart runs from the first statement of   *)
(* main to the summary block, a phase's xStart from its start mark to its  *)
(* result line, batchStart during a loop iteration of Seed and Create      *)
(* (visible between the two steps of a pgx iteration).                      *)
OpenTimers ==
    IF pc \in {"Done", "Aborted"} THEN {}
    ELSE {"total"}
            \cup {started[k] : k \in (Len(out) + 1)..Len(started)}
            \cup (IF pc \in {"SeedResults", "CreateResults"} THEN {"batch"} ELSE {})

(* sql.Open + db.Ping / gorm.Open / pgx.Connect: takes d ticks; on an      *)
(* error log.Fatalf                                                         *)
Connect ==
    /\ pc = "Connect"
    /\ \E d \in 1..MaxConnect, fail \in BOOLEAN :
        /\ now' = now + d
        /\ IF fail THEN Fatal("Connect", "connect")
                   ELSE pc' = "ResetStart" /\ failed' = failed
    /\ UNCHANGED <<variant, cfg, users, nextId, i, ids, userCount, started,
                   out, summary, seedChunks, createChunks, pending, snap,
                   startAt, timing, total>>

(* xStart := time.Now() after the phase's header line *)
StartPhase ==
    \E p \in Phases :
        /\ pc = StartOf[p]
        /\ started' = Append(started, p)
        /\ pc' = BodyOf[p]
        /\ i' = IF p \in {"Seed", "Create"} THEN 0 ELSE i
        /\ ids' = IF p \in {"Update", "Delete"} THEN <<>> ELSE ids
        /\ snap' = users
        /\ startAt' = now
        /\ UNCHANGED <<variant, cfg, users, nextId, userCount, out, summary,
                       failed, seedChunks, createChunks, pending,
                       now, timing, total>>

(* Reset: TRUNCATE TABLE users RESTART IDENTITY *)
Reset ==
    /\ pc = "ResetExec"
    /\ \E fail \in BOOLEAN :
        IF fail
        THEN /\ Fatal("Reset", "store")
             /\ UNCHANGED <<users, nextId, out>>
        ELSE /\ users' = Truncate.users
             /\ nextId' = Truncate.nextId
             /\ failed' = failed
             /\ Finish("Reset", NoCount)
    /\ UNCHANGED <<variant, cfg, i, ids, userCount, started, summary,
                   seedChunks, createChunks, pending, snap>>
    /\ Elapse(1)

(* Indices at which a statement of a batch or a row of a result set fails  *)
FailPoints(n) == {k \in 0..(n - 1) : k < MaxFailIdx \/ k = n - 1}

SeedBatchRecords(lo, hi) == [m \in 1..(hi - lo) |-> SeedRecord(lo + m - 1)]

NewBatchRecords(lo, hi) == [m \in 1..(hi - lo) |-> NewRecord(lo + m - 1)]

(* With BatchSize = 0 a loop whose iteration does not end the run never    *)
(* advances i; the model follows such a loop for count + 1 iterations.     *)
(* With BatchSize >= 1 fewer than count chunks precede every iteration.    *)
WithinLoopBound(chunks, count) == Len(chunks) <= count

(* Seed, PQ and GORM: one loop iteration, one bulk INSERT / db.Create.      *)
(* An empty chunk (BatchSize = 0) is "INSERT ... VALUES " without a row, a  *)
(* syntax error, or db.Create of an empty slice, gorm.ErrEmptySlice.        *)
SeedBatch ==
    /\ pc = "SeedLoop"
    /\ variant \in {"PQ", "GORM"}
    /\ i < cfg.InitialUsersCount
    /\ LET end == ChunkEnd(i, cfg.InitialUsersCount, cfg.BatchSize)
           res == Insert(users, nextId, SeedBatchRecords(i, end))
       IN  /\ seedChunks' = Append(seedChunks, <<i, end>>)
           /\ \E fail \in BOOLEAN :
                IF fail
                THEN /\ Fatal("Seed", "store")
                     /\ UNCHANGED <<users, nextId, i>>
                ELSE IF end = i
                THEN /\ Fatal("Seed", "empty")
                     /\ UNCHANGED <<users, nextId, i>>
                ELSE IF ~res.ok
                THEN /\ Fatal("Seed", "unique")
                     /\ nextId' = res.nextId
                     /\ UNCHANGED <<users, i>>
                ELSE /\ users' = res.users
                     /\ nextId' = res.nextId
                     /\ i' = NextIndex(i, cfg.BatchSize)
                     /\ UNCHANGED <<pc, failed>>
    /\ UNCHANGED <<variant, cfg, ids, userCount, started, out, summary,
                   createChunks, pending, snap>>
    /\ Elapse(1)

(* pgx: batch.Queue for every record of the chunk, then conn.SendBatch.     *)
(* The statements run in one implicit transaction: when statement errAt    *)
(* fails, nothing of the batch is stored and the results from errAt on are  *)
(* errors.                                                                  *)
SendBatch(p, lo, hi, recs) ==
    LET n == hi - lo
        res == Insert(users, nextId, recs)
    IN  \E f \in FailPoints(n) \cup {n} :
            LET errAt == Min(f, res.errAt)
            IN  /\ pending' = [n |-> n, errAt |-> errAt, phase |-> p]
                /\ IF errAt = n
                   THEN users' = res.users /\ nextId' = res.nextId
                   ELSE users' = users /\ nextId' = IF res.errAt <= f THEN res.nextId ELSE nextId

(* Seed, PGX: queue and send the chunk *)
SeedSendBatch ==
    /\ pc = "SeedLoop"
    /\ variant = "PGX"
    /\ i < cfg.InitialUsersCount
    /\ WithinLoopBound(seedChunks, cfg.InitialUsersCount)
    /\ LET end == ChunkEnd(i, cfg.InitialUsersCount, cfg.BatchSize)
       IN  /\ seedChunks' = Append(seedChunks, <<i, end>>)
           /\ SendBatch("Seed", i, end, SeedBatchRecords(i, end))
    /\ pc' = "SeedResults"
    /\ UNCHANGED <<variant, cfg, i, ids, userCount, started, out, summary,
                   failed, createChunks, snap>>
    /\ Elapse(1)

(* Seed, PGX: for k < end-i: batchResults.Exec(), Fatalf on the first error; *)
(* batchResults.Close()                                                     *)
SeedReadResults ==
    /\ pc = "SeedResults"
    /\ IF pending.errAt < pending.n
       THEN /\ Fatal("Seed", "store")
            /\ pending' = [pending EXCEPT !.n = pending.n - pending.errAt - 1,
                                          !.errAt = 0]
            /\ i' = i
       ELSE /\ pending' = NoBatch
            /\ i' = NextIndex(i, cfg.BatchSize)
            /\ pc' = "SeedLoop"
            /\ failed' = failed
    /\ UNCHANGED <<variant, cfg, users, nextId, ids, userCount, started, out,
                   summary, seedChunks, createChunks, snap>>
    /\ Elapse(1)

(* Seed: the loop condition fails, seedDuration is taken *)
SeedEnd ==
    /\ pc = "SeedLoop"
    /\ ~(i < cfg.InitialUsersCount)
    /\ Finish("Seed", NoCount)
    /\ UNCHANGED <<variant, cfg, users, nextId, i, ids, userCount, started,
                   summary, failed, seedChunks, createChunks, pending, snap>>
    /\ Elapse(0)

(* ReadCount / FinalReadCount: SELECT COUNT( * ).  PQ and PGX check the     *)
(* error; GORM calls Count without looking at the error and prints          *)
(* userCount as the failed call left it (untouched or zero).                *)
CountPhase(p) ==
    \E fail \in BOOLEAN :
        IF fail
        THEN IF variant = "GORM"
             THEN /\ failed' = failed \cup {<<p, "store">>}
                  /\ \E v \in {userCount, 0} :
                        userCount' = v /\ Finish(p, v)
             ELSE /\ Fatal(p, "store")
                  /\ UNCHANGED <<userCount, out>>
        ELSE /\ userCount' = Count(users)
             /\ failed' = failed
             /\ Finish(p, Count(users))

ReadCount ==
    /\ pc = "ReadExec"
    /\ CountPhase("ReadCount")
    /\ UNCHANGED <<variant, cfg, users, nextId, i, ids, started, summary,
                   seedChunks, createChunks, pending, snap>>
    /\ Elapse(1)

FinalReadCount ==
    /\ pc = "FinalReadExec"
    /\ CountPhase("FinalReadCount")
    /\ UNCHANGED <<variant, cfg, users, nextId, i, ids, started, summary,
                   seedChunks, createChunks, pending, snap>>
    /\ Elapse(1)

(* Outcomes of reading the ids of a SELECT whose rows are full:            *)
(*   ok      all rows are read                                             *)
(*   query   the query call returns an error                               *)
(*   stream  rows.Next() stops after `at` rows because of an error         *)
(*   scan    rows.Scan fails on row number at+1                            *)
SelectOutcomes(full) ==
    {[kind |-> "ok", at |-> 0], [kind |-> "query", at |-> 0]}
        \cup [kind : {"stream", "scan"}, at : FailPoints(Len(full))]

Without(s, m) == SubSeq(s, 1, m) \o SubSeq(s, m + 2, Len(s))

(* What the program keeps of the select, per variant and phase.            *)
(* PQ and PGX never look at rows.Err(), so a stream error only shortens    *)
(* the list.  A scan error is fatal in the PQ Update loop and skips the    *)
(* row in the PQ Delete loop and in both PGX loops.  GORM's Pluck returns  *)
(* every error, which is fatal.                                            *)
ReadIds(v, p, full, o) ==
    CASE o.kind = "ok" -> [fatal |-> FALSE, ids |-> full]
      [] o.kind = "query" -> [fatal |-> TRUE, ids |-> <<>>]
      [] o.kind = "stream" ->
            IF v = "GORM" THEN [fatal |-> TRUE, ids |-> <<>>]
            ELSE [fatal |-> FALSE, ids |-> SubSeq(full, 1, o.at)]
      [] o.kind = "scan" ->
            IF v = "GORM" \/ (v = "PQ" /\ p = "Update")
            THEN [fatal |-> TRUE, ids |-> <<>>]
            ELSE [fatal |-> FALSE, ids |-> Without(full, o.at)]

ErrKind(o) == IF o.kind = "scan" THEN "scan" ELSE "store"

SelectPhase(p, limit, offset, next) ==
    LET full == SelectIds(users, limit, offset)
    IN  \E o \in SelectOutcomes(full) :
            LET r == ReadIds(variant, p, full, o)
            IN  IF r.fatal
                THEN Fatal(p, ErrKind(o)) /\ ids' = ids
                ELSE /\ ids' = r.ids
                     /\ pc' = next
                     /\ failed' = IF o.kind = "ok" THEN failed
                                  ELSE failed \cup {<<p, ErrKind(o)>>}

(* Update: SELECT id FROM users LIMIT UpdateCount *)
UpdateSelect ==
    /\ pc = "UpdateSelect"
    /\ SelectPhase("Update", cfg.UpdateCount, 0, "UpdateExec")
    /\ UNCHANGED <<variant, cfg, users, nextId, i, userCount, started, out,
                   summary, seedChunks, createChunks, pending, snap>>
    /\ Elapse(1)

(* Delete: SELECT id FROM users OFFSET 1000 LIMIT DeleteCount *)
DeleteSelect ==
    /\ pc = "DeleteSelect"
    /\ SelectPhase("Delete", cfg.DeleteCount, DeleteOffset, "DeleteExec")
    /\ UNCHANGED <<variant, cfg, users, nextId, i, userCount, started, out,
                   summary, seedChunks, createChunks, pending, snap>>
    /\ Elapse(1)

Range(s) == {s[k] : k \in DOMAIN s}

(* A piece of statement text: the placeholder "$n" or a separator *)
Ph(n) == [dollar |-> n]
Sep(text) == [sep |-> text]

(* strings.Join(parts, sep) *)
Join(parts, sep) ==
    [k \in 1..(IF Len(parts) = 0 THEN 0 ELSE 2 * Len(parts) - 1) |->
        IF k % 2 = 1 THEN parts[(k + 1) \div 2] ELSE Sep(sep)]

(* buildPlaceholders(count, start): "$start", .., joined with "," *)
buildPlaceholders(count, start) ==
    LET placeholders == [k \in 1..count |-> Ph(start + k - 1)]
    IN  Join(placeholders, ",")

(* The parameter numbers a piece of statement text refers to *)
Params(text) ==
    {text[k].dollar : k \in {l \in DOMAIN text : "dollar" \in DOMAIN text[l]}}

(* The store executes a statement only when its parameters are exactly the *)
(* nargs arguments bound to it.                                            *)
Binds(params, nargs) == params = 1..nargs

(* Update, PQ: one UPDATE .. WHERE id IN (..) when ids is not empty *)
UpdatePQ ==
    /\ pc = "UpdateExec"
    /\ variant = "PQ"
    /\ IF Len(ids) > 0
       THEN \E fail \in BOOLEAN, reloc \in BOOLEAN :
                IF fail \/ ~Binds({1} \cup Params(buildPlaceholders(Len(ids), 2)),
                                  Len(ids) + 1)
                THEN /\ Fatal("Update", "store")
                     /\ UNCHANGED <<users, out>>
                ELSE /\ users' = UpdateNames(users, Range(ids), "PQ", reloc)
                     /\ failed' = failed
                     /\ Finish("Update", Len(ids))
       ELSE /\ UNCHANGED <<users, failed>>
            /\ Finish("Update", Len(ids))
    /\ UNCHANGED <<variant, cfg, nextId, i, ids, userCount, started, summary,
                   seedChunks, createChunks, pending, snap>>
    /\ Elapse(1)

(* Update, GORM: Where("id IN ?", userIDs).Update("name", ..), also when    *)
(* userIDs is empty (the condition is then id IN (NULL), no row matches)    *)
UpdateGORM ==
    /\ pc = "UpdateExec"
    /\ variant = "GORM"
    /\ \E fail \in BOOLEAN, reloc \in BOOLEAN :
            IF fail
            THEN /\ Fatal("Update", "store")
                 /\ UNCHANGED <<users, out>>
            ELSE /\ users' = UpdateNames(users, Range(ids), "GORM", reloc)
                 /\ failed' = failed
                 /\ Finish("Update", Len(ids))
    /\ UNCHANGED <<variant, cfg, nextId, i, ids, userCount, started, summary,
                   seedChunks, createChunks, pending, snap>>
    /\ Elapse(1)

(* Update, PGX: one UPDATE per id; a failing statement is logged and the    *)
(* loop goes on.  F is the set of positions of ids whose statement fails.  *)
UpdatePGX ==
    /\ pc = "UpdateExec"
    /\ variant = "PGX"
    /\ \E F \in SUBSET (DOMAIN ids), reloc \in BOOLEAN :
            /\ users' = UpdateNames(users, {ids[k] : k \in DOMAIN ids \ F}, "PGX", reloc)
            /\ failed' = IF F = {} THEN failed
                         ELSE failed \cup {<<"Update", "store">>}
            /\ Finish("Update", Len(ids))
    /\ UNCHANGED <<variant, cfg, nextId, i, ids, userCount, started, summary,
                   seedChunks, createChunks, pending, snap>>
    /\ Elapse(1)

(* Delete, PQ: one DELETE .. WHERE id IN (..) when deleteIDs is not empty *)
DeletePQ ==
    /\ pc = "DeleteExec"
    /\ variant = "PQ"
    /\ IF Len(ids) > 0
       THEN \E fail \in BOOLEAN :
                IF fail \/ ~Binds(Params(buildPlaceholders(Len(ids), 1)), Len(ids))
                THEN /\ Fatal("Delete", "store")
                     /\ UNCHANGED <<users, out>>
                ELSE /\ users' = DeleteRows(users, Range(ids))
                     /\ failed' = failed
                     /\ Finish("Delete", Len(ids))
       ELSE /\ UNCHANGED <<users, failed>>
            /\ Finish("Delete", Len(ids))
    /\ UNCHANGED <<variant, cfg, nextId, i, ids, userCount, started, summary,
                   seedChunks, createChunks, pending, snap>>
    /\ Elapse(1)

(* Delete, GORM: db.Delete(&User{}, userIDsToDelete) with no guard.  For an *)
(* empty slice GORM builds no WHERE clause and returns                      *)
(* ErrMissingWhereClause without sending a statement.                       *)
DeleteGORM ==
    /\ pc = "DeleteExec"
    /\ variant = "GORM"
    /\ IF Len(ids) = 0
       THEN /\ Fatal("Delete", "where")
            /\ UNCHANGED <<users, out>>
       ELSE \E fail \in BOOLEAN :
                IF fail
                THEN /\ Fatal("Delete", "store")
                     /\ UNCHANGED <<users, out>>
                ELSE /\ users' = DeleteRows(users, Range(ids))
                     /\ failed' = failed
                     /\ Finish("Delete", Len(ids))
    /\ UNCHANGED <<variant, cfg, nextId, i, ids, userCount, started, summary,
                   seedChunks, createChunks, pending, snap>>
    /\ Elapse(1)

(* Delete, PGX: one DELETE per id; a failing statement is logged and the    *)
(* loop goes on.                                                            *)
DeletePGX ==
    /\ pc = "DeleteExec"
    /\ variant = "PGX"
    /\ \E F \in SUBSET (DOMAIN ids) :
            /\ users' = DeleteRows(users, {ids[k] : k \in DOMAIN ids \ F})
            /\ failed' = IF F = {} THEN failed
                         ELSE failed \cup {<<"Delete", "store">>}
            /\ Finish("Delete", Len(ids))
    /\ UNCHANGED <<variant, cfg, nextId, i, ids, userCount, started, summary,
                   seedChunks, createChunks, pending, snap>>
    /\ Elapse(1)

(* Create, PQ: one bulk INSERT per chunk, Fatalf on error *)
CreateBatchPQ ==
    /\ pc = "CreateLoop"
    /\ variant = "PQ"
    /\ i < cfg.NewUsersCount
    /\ LET end == ChunkEnd(i, cfg.NewUsersCount, cfg.BatchSize)
           res == Insert(users, nextId, NewBatchRecords(i, end))
       IN  /\ createChunks' = Append(createChunks, <<i, end>>)
           /\ \E fail \in BOOLEAN :
                IF fail
                THEN /\ Fatal("Create", "store")
                     /\ UNCHANGED <<users, nextId, i>>
                ELSE IF end = i
                THEN /\ Fatal("Create", "empty")
                     /\ UNCHANGED <<users, nextId, i>>
                ELSE IF ~res.ok
                THEN /\ Fatal("Create", "unique")
                     /\ nextId' = res.nextId
                     /\ UNCHANGED <<users, i>>
                ELSE /\ users' = res.users
                     /\ nextId' = res.nextId
                     /\ i' = NextIndex(i, cfg.BatchSize)
                     /\ UNCHANGED <<pc, failed>>
    /\ UNCHANGED <<variant, cfg, ids, userCount, started, out, summary,
                   seedChunks, pending, snap>>
    /\ Elapse(1)

(* Create, GORM: db.Create per chunk; an error is logged with log.Printf    *)
(* and the loop goes on with the next chunk.                                *)
CreateBatchGORM ==
    /\ pc = "CreateLoop"
    /\ variant = "GORM"
    /\ i < cfg.NewUsersCount
    /\ WithinLoopBound(createChunks, cfg.NewUsersCount)
    /\ LET end == ChunkEnd(i, cfg.NewUsersCount, cfg.BatchSize)
           res == Insert(users, nextId, NewBatchRecords(i, end))
       IN  /\ createChunks' = Append(createChunks, <<i, end>>)
           /\ \E fail \in BOOLEAN :
                IF fail
                THEN /\ failed' = failed \cup {<<"Create", "store">>}
                     /\ UNCHANGED <<users, nextId>>
                ELSE IF end = i
                THEN /\ failed' = failed \cup {<<"Create", "empty">>}
                     /\ UNCHANGED <<users, nextId>>
                ELSE IF ~res.ok
                THEN /\ failed' = failed \cup {<<"Create", "unique">>}
                     /\ nextId' = res.nextId
                     /\ users' = users
                ELSE /\ users' = res.users
                     /\ nextId' = res.nextId
                     /\ failed' = failed
    /\ i' = NextIndex(i, cfg.BatchSize)
    /\ UNCHANGED <<variant, cfg, pc, ids, userCount, started, out, summary,
                   seedChunks, pending, snap>>
    /\ Elapse(1)

(* Create, PGX: queue and send the chunk *)
CreateSendBatch ==
    /\ pc = "CreateLoop"
    /\ variant = "PGX"
    /\ i < cfg.NewUsersCount
    /\ WithinLoopBound(createChunks, cfg.NewUsersCount)
    /\ LET end == ChunkEnd(i, cfg.NewUsersCount, cfg.BatchSize)
       IN  /\ createChunks' = Append(createChunks, <<i, end>>)
           /\ SendBatch("Create", i, end, NewBatchRecords(i, end))
    /\ pc' = "CreateResults"
    /\ UNCHANGED <<variant, cfg, i, ids, userCount, started, out, summary,
                   failed, seedChunks, snap>>
    /\ Elapse(1)

(* Create, PGX: for k < end-i: batchResults.Exec(), an error is logged and  *)
(* the loop reads on; batchResults.Close()                                  *)
CreateReadResults ==
    /\ pc = "CreateResults"
    /\ failed' = IF pending.errAt < pending.n
                 THEN failed \cup {<<"Create", "store">>}
                 ELSE failed
    /\ pending' = NoBatch
    /\ i' = NextIndex(i, cfg.BatchSize)
    /\ pc' = "CreateLoop"
    /\ UNCHANGED <<variant, cfg, users, nextId, ids, userCount, started, out,
                   summary, seedChunks, createChunks, snap>>
    /\ Elapse(1)

(* Create: the loop condition fails; "Created NewUsersCount new users"      *)
CreateEnd ==
    /\ pc = "CreateLoop"
    /\ ~(i < cfg.NewUsersCount)
    /\ Finish("Create", cfg.NewUsersCount)
    /\ UNCHANGED <<variant, cfg, users, nextId, i, ids, userCount, started,
                   summary, failed, seedChunks, createChunks, pending, snap>>
    /\ Elapse(0)

(* totalDuration := time.Since(totalStart) *)
TotalDurationOfPhases == now - timing[1].start
TotalDuration == now - TotalStart

(* The PERFORMANCE SUMMARY block, then main returns *)
Summary ==
    /\ pc = "Summary"
    /\ summary' = SummaryLines
    /\ total' = TotalDuration
    /\ pc' = "Done"
    /\ UNCHANGED <<variant, cfg, users, nextId, i, ids, userCount, started,
                   out, failed, seedChunks, createChunks, pending, snap,
                   now, startAt, timing>>

Next ==
    \/ Connect
    \/ StartPhase
    \/ Reset
    \/ SeedBatch
    \/ SeedSendBatch
    \/ SeedReadResults
    \/ SeedEnd
    \/ ReadCount
    \/ UpdateSelect
    \/ UpdatePQ
    \/ UpdateGORM
    \/ UpdatePGX
    \/ DeleteSelect
    \/ DeletePQ
    \/ DeleteGORM
    \/ DeletePGX
    \/ CreateBatchPQ
    \/ CreateBatchGORM
    \/ CreateSendBatch
    \/ CreateReadResults
    \/ CreateEnd
    \/ FinalReadCount
    \/ Summary

Spec == Init /\ [][Next]_vars

SpecAnyConfig == InitAnyConfig /\ [][Next]_vars

(* main is sequential code that keeps running: a step that can be taken is *)
(* taken.                                                                  *)
FairConfigs ==
    SmallConfigs \cup {ScenarioConfig}
        \cup {[InitialUsersCount |-> DeleteOffset + 1, BatchSize |-> LargeBatch,
               UpdateCount |-> 1, DeleteCount |-> 1, NewUsersCount |-> 1]}

FairSpec == InitFrom(FairConfigs) /\ [][Next]_vars /\ WF_vars(Next)

-----------------------------------------------------------------------------
(* Vocabulary of the properties *)

Completed == [k \in 1..Len(out) |-> out[k].phase]

IsPrefix(s, t) == Len(s) <= Len(t) /\ \A k \in 1..Len(s) : s[k] = t[k]

StoreKinds == {"store", "scan", "unique"}

StoreErrors == {e \in failed : e[2] \in StoreKinds}

Ended == pc \in {"Done", "Aborted"}

CeilDiv(a, b) == (a + b - 1) \div b

RECURSIVE SumSizes(_)
SumSizes(chunks) ==
    IF chunks = <<>> THEN 0
    ELSE (chunks[1][2] - chunks[1][1]) + SumSizes(Tail(chunks))

ChunksOK(chunks, count, batch) ==
    /\ Len(chunks) = CeilDiv(count, batch)
    /\ SumSizes(chunks) = count
    /\ \A k \in 1..Len(chunks) :
        /\ chunks[k][1] = IF k = 1 THEN 0 ELSE chunks[k - 1][2]
        /\ chunks[k][2] > chunks[k][1]
        /\ k < Len(chunks) => chunks[k][2] - chunks[k][1] = batch
        /\ chunks[k][2] - chunks[k][1] <= batch

-----------------------------------------------------------------------------
(* C1: in every variant the phases start in the order Reset, Seed,         *)
(* ReadCount, Update, Delete, Create, FinalReadCount; a phase starts only  *)
(* when the previous phase has finished and no batch result is outstanding; *)
(* a run that reaches Done has run every phase exactly once.               *)
C1_PhasesInOrder ==
    /\ IsPrefix(started, PhaseOrder)
    /\ IsPrefix(Completed, started)
    /\ Len(started) <= Len(Completed) + 1
    /\ pending.n > 0 =>
        /\ Len(started) = Len(Completed) + 1
        /\ started[Len(started)] = pending.phase
    /\ pc \in {StartOf[p] : p \in Phases} =>
        /\ pending.n = 0
        /\ Len(started) = Len(Completed)
        /\ pc = StartOf[PhaseOrder[Len(started) + 1]]
    /\ pc = "Done" => started = PhaseOrder /\ Completed = PhaseOrder

C1_Witness ==
    /\ pc = "Done"
    /\ variant = "PGX"
    /\ Len(seedChunks) >= 2
    /\ Len(createChunks) >= 2

(* C2: the Seed loop and the Create loop issue ceil(count/batchSize) bulk   *)
(* inserts over consecutive index ranges starting at 0; the sizes sum to   *)
(* count, every chunk but the last has batchSize records, none is empty.   *)
C2_Chunking ==
    /\ (\E k \in DOMAIN out : out[k].phase = "Seed") =>
            ChunksOK(seedChunks, cfg.InitialUsersCount, cfg.BatchSize)
    /\ (\E k \in DOMAIN out : out[k].phase = "Create") =>
            ChunksOK(createChunks, cfg.NewUsersCount, cfg.BatchSize)

C2_Witness ==
    /\ \E k \in DOMAIN out : out[k].phase = "Create"
    /\ Len(seedChunks) = 4
    /\ seedChunks[4][2] - seedChunks[4][1] = 1
    /\ Len(createChunks) = 2
    /\ createChunks[2][2] - createChunks[2][1] < cfg.BatchSize

(* C3: whatever the table held before the run, once Reset and Seed have     *)
(* completed the count that ReadCount reads and prints is InitialUsersCount. *)
C3_RoundTrip ==
    \A k \in DOMAIN out :
        (out[k].phase = "ReadCount" /\ <<"ReadCount", "store">> \notin failed)
            => out[k].rows = cfg.InitialUsersCount

C3_Witness ==
    /\ pc = "UpdateStart"
    /\ failed = {}
    /\ cfg.InitialUsersCount >= 2
    /\ out[Len(out)] = Line("ReadCount", cfg.InitialUsersCount)

(* Rows the Delete phase removes when nothing fails *)
Deleted(c) == Min(c.DeleteCount, Max(0, c.InitialUsersCount - DeleteOffset))

ExpectedFinal(c) == c.InitialUsersCount - Deleted(c) + c.NewUsersCount

(* C4: in every variant a run in which no store operation fails ends with  *)
(* FinalReadCount = initialCount - deleted + newCount, where                *)
(* deleted = min(deleteCount, max(0, initialCount - 1000)); the scenario    *)
(* configuration ends with 15 rows, the default one with 57500.            *)
C4_EndToEnd ==
    /\ (Ended /\ StoreErrors = {}) =>
        /\ pc = "Done"
        /\ out[Len(out)] = Line("FinalReadCount", ExpectedFinal(cfg))
    /\ ExpectedFinal(ScenarioConfig) = 15
    /\ ExpectedFinal(DefaultConfig) = 57500

(* The number of identifiers the select of the phase at pc was asked for *)
Requested ==
    IF pc = "UpdateExec" THEN cfg.UpdateCount ELSE cfg.DeleteCount

ExecPhase == IF pc = "UpdateExec" THEN "Update" ELSE "Delete"

(* C5: when the identifier select of Update or Delete returned fewer        *)
(* identifiers than requested, zero included, the phase is not an error:   *)
(* unless a store operation fails, it finishes with the identifiers it got *)
(* and the run goes on to the next phase.                                  *)
C5_ShortSelectProceeds ==
    [][(/\ pc \in {"UpdateExec", "DeleteExec"}
        /\ Len(ids) < Requested
        /\ StoreErrors = {}
        /\ StoreErrors' = {})
        => /\ pc' = AfterPhase(ExecPhase)
           /\ out' = Append(out, Line(ExecPhase, Len(ids)))]_vars

RowsOf(u) == {u[k] : k \in DOMAIN u}

Keys(u) == {[id |-> u[k].id, email |-> u[k].email] : k \in DOMAIN u}

(* C6: after Update with updateCount = k on a table of at least k rows,     *)
(* exactly k rows carry the one fixed replacement name; the other rows,    *)
(* every id and email, and the row count are unchanged.                    *)
C6_UpdateRenamesK ==
    (/\ pc = "DeleteStart"
     /\ failed = {}
     /\ Len(snap) >= cfg.UpdateCount)
        => LET changed == RowsOf(users) \ RowsOf(snap)
           IN  /\ Cardinality(changed) = cfg.UpdateCount
               /\ \A r1, r2 \in changed : r1.name = r2.name
               /\ Keys(users) = Keys(snap)
               /\ Len(users) = Len(snap)

(* C7: after Delete with deleteCount = d on a table of at least 1000 + d    *)
(* rows, the row count is d lower and none of the 1000 lowest identifiers  *)
(* the table held before the phase is gone.                                *)
C7_DeleteSparesLowIds ==
    (/\ pc = "CreateStart"
     /\ failed = {}
     /\ Len(snap) >= DeleteOffset + cfg.DeleteCount)
        => /\ Len(users) = Len(snap) - cfg.DeleteCount
           /\ \A x \in IdsOf(snap) \ IdsOf(users) :
                Cardinality({y \in IdsOf(snap) : y < x}) >= DeleteOffset

(* C8: a store error in any phase is fatal in every variant: once a store   *)
(* operation has failed the run is aborted, so no later store operation is *)
(* issued, no later phase starts and Done is never reached.                *)
C8_StoreErrorIsFatal == StoreErrors # {} => pc = "Aborted"

(* C9: when a store error aborts the run, the report holds the result of    *)
(* every phase that completed before.                                      *)
C9_AbortedRunReports ==
    pc = "Aborted" =>
        \A k \in DOMAIN out : \E l \in DOMAIN summary : summary[l] = out[k].phase

(* C10: every phase that started has its end timing mark taken, whatever   *)
(* its outcome: when the run is over, each started phase has a recorded    *)
(* duration.                                                               *)
C10_EndMarkAlwaysTaken ==
    Ended => \A k \in DOMAIN started : \E l \in DOMAIN out : out[l].phase = started[k]

(* Sum of the recorded phase durations (xDuration = end - start) *)
RECURSIVE SumDurations(_)
SumDurations(t) ==
    IF t = <<>> THEN 0
    ELSE (t[1].end - t[1].start) + SumDurations(Tail(t))

(* Time between totalStart and the first phase start mark: connection setup *)
SetupTime == timing[1].start - TotalStart

(* C11 (as stated): the reported total equals the sum of the seven         *)
(* recorded phase durations; it contains no time outside a phase window,   *)
(* in particular none of the connection setup.                             *)
C11_TotalIsSumOfPhases ==
    pc = "Done" => total = SumDurations(timing)

(* C11 (amended): the reported total is the wall-clock time since the      *)
(* first statement of main: it is at least the sum of the seven recorded   *)
(* phase durations plus the time the connection setup took, and so is      *)
(* strictly larger than the sum of the phase durations.                    *)
C11_TotalIsWallClock ==
    pc = "Done" =>
        /\ Len(timing) = 7
        /\ total = now - TotalStart
        /\ total >= SumDurations(timing) + SetupTime
        /\ SetupTime >= 1

(* A completed run whose phases took time and whose connection took the longest time *)
C11_Witness ==
    /\ pc = "Done"
    /\ Len(timing) = 7
    /\ SumDurations(timing) >= 7
    /\ SetupTime = MaxConnect
    /\ total = SumDurations(timing) + MaxConnect

(* C12: an invalid configuration (BatchSize = 0) is rejected before Reset: *)
(* no phase produces a result, in particular the table is not truncated.   *)
C12_InvalidConfigRejected ==
    cfg.BatchSize < 1 => (out = <<>> /\ seedChunks = <<>>)

(* C13: Reset is idempotent.  Whatever the table held and wherever its id  *)
(* sequence stood, a Reset that returned leaves no rows and next id 1, so  *)
(* a Reset of the state a Reset left (the empty table, next id 1) leaves   *)
(* that state again, and it returns without an error.                      *)
C13_ResetIdempotent ==
    pc = "SeedStart" =>
        /\ users = <<>>
        /\ nextId = 1
        /\ out = <<Line("Reset", NoCount)>>
        /\ failed = {}

(* Reset has returned without error on a table that was already empty *)
C13_Witness ==
    /\ pc = "SeedStart"
    /\ snap = <<>>
    /\ users = <<>>
    /\ nextId = 1
    /\ out = <<Line("Reset", NoCount)>>

(* The table an undisturbed run of the PQ program ends with under           *)
(* configuration c, when every statement leaves the rows where they are.    *)
ReferenceTable(c) ==
    LET t0 == [k \in 1..c.InitialUsersCount |-> Row(k, SeedRecord(k - 1))]
        t1 == UpdateNames(t0, Range(SelectIds(t0, c.UpdateCount, 0)), "PQ", FALSE)
        t2 == DeleteRows(t1, Range(SelectIds(t1, c.DeleteCount, DeleteOffset)))
    IN  t2 \o [m \in 1..c.NewUsersCount |->
                  Row(c.InitialUsersCount + m, NewRecord(m - 1))]

(* C14: the three programs are outwardly identical: under the same          *)
(* configuration a run in which nothing failed ends, whichever program it   *)
(* is, with the same rows (id, name, email) as the PQ program's run.        *)
C14_SameOutcome ==
    (pc = "Done" /\ failed = {}) => RowsOf(users) = RowsOf(ReferenceTable(cfg))

(* The six decimal digits of n < 10^6, most significant first *)
SixDigits(n) == [d \in 1..6 |-> (n \div 10^(6 - d)) % 10]

(* C15: a seeded record is a pure function of its index: while the table   *)
(* holds only seeded rows, the row seeded with 0-based index j has the name *)
(* "User_" followed by j+1 zero-padded to six digits and the email "user"   *)
(* followed by the same digits and "@example.com"; nothing else (program,   *)
(* batch size, run) enters the record.                                      *)
C15_SeedRecordOfIndex ==
    Len(started) \in {2, 3} =>
        \A k \in DOMAIN users :
            /\ users[k].name = [pre |-> "User_", num |-> SixDigits(k), suf |-> ""]
            /\ users[k].email =
                   [pre |-> "user", num |-> SixDigits(k), suf |-> "@example.com"]

(* Seed has completed on more than a thousand records; the last one has a  *)
(* four-digit number padded with two zeros                                  *)
C15_Witness ==
    /\ pc = "ReadStart"
    /\ Len(users) = cfg.InitialUsersCount
    /\ Len(users) > DeleteOffset
    /\ users[Len(users)].name.num[2] = 0
    /\ users[Len(users)].name.num[3] = 1

(* C16: emails are unique across a run.  In every state after Reset no two *)
(* rows share an email, and no insert of Seed or Create is rejected by the  *)
(* UNIQUE constraint on email.                                              *)
C16_EmailsUnique ==
    Len(out) >= 1 =>
        /\ Cardinality(Emails(users)) = Len(users)
        /\ \A p \in Phases : <<p, "unique">> \notin failed

(* A run that seeded and created several records in several chunks, with   *)
(* no insert rejected                                                       *)
C16_Witness ==
    /\ pc = "Done"
    /\ failed = {}
    /\ Len(seedChunks) >= 2
    /\ Len(createChunks) >= 2
    /\ Len(users) = cfg.InitialUsersCount + cfg.NewUsersCount

(* C17: the final report lists its entries in one fixed order: Reset, Seed, *)
(* ReadCount, Update, Delete, Create, FinalReadCount, Total, each exactly   *)
(* once, the phases in the order they ran, in every program; before the     *)
(* run is done no summary entry is printed.                                 *)
C17_SummaryOrder ==
    /\ pc = "Done" =>
          /\ Len(summary) = 8
          /\ summary[1] = "Reset" /\ summary[2] = "Seed"
          /\ summary[3] = "ReadCount" /\ summary[4] = "Update"
          /\ summary[5] = "Delete" /\ summary[6] = "Create"
          /\ summary[7] = "FinalReadCount" /\ summary[8] = "Total"
          /\ \A k \in 1..7 : summary[k] = out[k].phase
    /\ pc # "Done" => summary = <<>>

(* The GORM program has printed its summary *)
C17_Witness ==
    /\ pc = "Done"
    /\ variant = "GORM"
    /\ Len(summary) = 8
    /\ Len(out) = 7

(* C18: the Delete phase never removes a row that the Update phase of the  *)
(* same run renamed: no identifier selected for deletion belongs to a row  *)
(* that carries the name Update wrote.                                      *)
C18_DeleteSparesUpdated ==
    pc = "DeleteExec" =>
        \A k \in DOMAIN users :
            users[k].id \in Range(ids) =>
                users[k].name # UpdatedName(variant, users[k].id)

(* The rows Create stored, in heap order *)
NewRows(u) == SelectSeq(u, LAMBDA r : r.name.pre = "New_User_")

(* C19 (as stated): Create generates its records from the index range      *)
(* [initialCount, initialCount + newCount): the k-th created row carries   *)
(* the sequence number initialCount + k.                                   *)
C19_CreateContinuesSeedNumbers ==
    (pc = "Done" /\ failed = {}) =>
        \A k \in DOMAIN NewRows(users) :
            NewRows(users)[k].name.num = SixDigits(cfg.InitialUsersCount + k)

(* C19 (amended): Create generates its records from the index range        *)
(* [0, newCount), chunked by batchSize from index 0 as in Seed: every      *)
(* created row has the name "New_User_" and the email "newuser" ..          *)
(* "@example.com" with one sequence number in 1..newCount, both prefixes    *)
(* different from Seed's, and in a run without a failure the k-th created  *)
(* row carries the number k, for k = 1..newCount.                          *)
C19_CreateNumbersFromOne ==
    createChunks # <<>> =>
        LET nr == NewRows(users)
        IN  /\ createChunks[1][1] = 0
            /\ \A k \in 1..Len(createChunks) :
                    /\ createChunks[k][2] =
                          Min(createChunks[k][1] + cfg.BatchSize, cfg.NewUsersCount)
                    /\ k > 1 => createChunks[k][1] = createChunks[k - 1][2]
            /\ \A k \in DOMAIN nr : \E m \in 1..cfg.NewUsersCount :
                    /\ nr[k].name = [pre |-> "New_User_", num |-> SixDigits(m),
                                     suf |-> ""]
                    /\ nr[k].email = [pre |-> "newuser", num |-> SixDigits(m),
                                      suf |-> "@example.com"]
            /\ (pc = "Done" /\ failed = {}) =>
                    /\ Len(nr) = cfg.NewUsersCount
                    /\ \A k \in DOMAIN nr : nr[k].name.num = SixDigits(k)

(* A run on a seeded table that created its records in two chunks *)
C19_Witness ==
    /\ pc = "Done"
    /\ failed = {}
    /\ cfg.InitialUsersCount >= 2
    /\ Len(createChunks) >= 2
    /\ Len(NewRows(users)) = cfg.NewUsersCount
    /\ users[Len(users)].name.num = SixDigits(cfg.NewUsersCount)

(* The identifiers ids are those of rank offset+1 .. offset+Len(ids) of    *)
(* table u in ascending identifier order, listed in ascending order.       *)
AscendingWindow(u, offset) ==
    /\ Cardinality({x \in IdsOf(u) : x < ids[1]}) = offset
    /\ \A k \in 1..(Len(ids) - 1) :
            /\ ids[k] < ids[k + 1]
            /\ ~\E x \in IdsOf(u) : ids[k] < x /\ x < ids[k + 1]

(* C20: the identifier select returns identifiers in ascending identifier  *)
(* order after skipping offset rows: when no call failed, the identifiers  *)
(* Update (offset 0) and Delete (offset 1000) work on are the              *)
(* min(limit, rows - offset) identifiers that follow the offset smallest,  *)
(* so Update targets the min(updateCount, rowCount) smallest identifiers.  *)
C20_SelectAscending ==
    (pc \in {"UpdateExec", "DeleteExec"} /\ failed = {}) =>
        LET offset == IF pc = "UpdateExec" THEN 0 ELSE DeleteOffset
            limit == IF pc = "UpdateExec" THEN cfg.UpdateCount ELSE cfg.DeleteCount
        IN  /\ Len(ids) = Min(limit, Max(0, Len(users) - offset))
            /\ ids # <<>> => AscendingWindow(users, offset)

(* An insert of phase p was reported failed *)
InsertFailed(p) == \E kind \in {"store", "unique", "empty"} : <<p, kind>> \in failed

(* C21: a bulk insert is all-or-nothing in every variant: the step that    *)
(* reports a chunk of Seed or Create as failed leaves none of its records  *)
(* in the table, and once a chunk of a phase has failed the phase is over: *)
(* no later chunk is issued and no row is inserted.                        *)
C21_ChunkAllOrNothing ==
    [][\A p \in {"Seed", "Create"} :
          /\ (InsertFailed(p)' /\ ~InsertFailed(p)) => users' = users
          /\ InsertFailed(p) =>
                /\ seedChunks' = seedChunks
                /\ createChunks' = createChunks
                /\ Len(users') <= Len(users)]_vars

(* C22: Reset empties the table and restarts the id sequence at 1 from any *)
(* prior state, so when Reset and Seed of N records have completed the     *)
(* table holds exactly the ids 1..N and the row with id k carries the      *)
(* record with sequence number k.                                          *)
C22_SeededIdsFromOne ==
    pc = "ReadStart" =>
        /\ Len(users) = cfg.InitialUsersCount
        /\ IdsOf(users) = 1..cfg.InitialUsersCount
        /\ nextId = cfg.InitialUsersCount + 1
        /\ \A k \in DOMAIN users :
              /\ users[k].name.pre = "User_"
              /\ users[k].name.num = SixDigits(users[k].id)
              /\ users[k].email.pre = "user"
              /\ users[k].email.num = SixDigits(users[k].id)

(* Seed has completed in two or more chunks on the emptied table *)
C22_Witness ==
    /\ pc = "ReadStart"
    /\ Len(seedChunks) >= 2
    /\ cfg.InitialUsersCount >= 3
    /\ snap = <<>>
    /\ IdsOf(users) = 1..cfg.InitialUsersCount
    /\ users[1].name.num = SixDigits(1)

(* C23: identifiers are never reused within a run: every row Create        *)
(* inserted has an id greater than every id assigned during Seed (the ids  *)
(* 1..InitialUsersCount, those of rows Delete removed included), no id is  *)
(* carried by two rows, and every id in the table is below the sequence.   *)
C23_IdsNeverReused ==
    Len(out) >= 1 =>
        /\ Cardinality(IdsOf(users)) = Len(users)
        /\ \A k \in DOMAIN users :
              /\ users[k].id < nextId
              /\ users[k].name.pre = "New_User_" =>
                    users[k].id > cfg.InitialUsersCount

(* Delete removed rows and Create then inserted a row: its id is above     *)
(* every seeded id, not the id of a removed row                            *)
C23_Witness ==
    /\ pc = "Done"
    /\ failed = {}
    /\ cfg.NewUsersCount >= 1
    /\ Len(users) < cfg.InitialUsersCount + cfg.NewUsersCount
    /\ users[Len(users)].name.pre = "New_User_"
    /\ users[Len(users)].id = cfg.InitialUsersCount + cfg.NewUsersCount

(* C24 (as stated): at every point of a run at most one timing window is  *)
(* open: no timer is started while an earlier one has not been stopped.    *)
C24_OneTimerOpen == Cardinality(OpenTimers) <= 1

(* C24 (amended): at every point of a run at most one phase timing window  *)
(* is open, and the phase windows never overlap: each starts no earlier    *)
(* than the previous one ended.  The other timers nest: the total window   *)
(* is open during the whole run and contains every phase window, and a     *)
(* per-chunk window is open only inside the window of Seed or Create.      *)
C24_PhaseWindowsDisjoint ==
    /\ Cardinality(OpenTimers \cap Phases) <= 1
    /\ OpenTimers # {} => "total" \in OpenTimers
    /\ "batch" \in OpenTimers =>
            (OpenTimers \cap Phases) \in {{"Seed"}, {"Create"}}
    /\ \A k \in DOMAIN timing :
            /\ TotalStart <= timing[k].start
            /\ timing[k].start <= timing[k].end
            /\ timing[k].end <= now
            /\ k > 1 => timing[k - 1].end <= timing[k].start
    /\ (OpenTimers \cap Phases # {} /\ timing # <<>>) =>
            timing[Len(timing)].end <= startAt

(* The total, the Create and a per-chunk timer are running; the windows   *)
(* of the five phases before Create are closed and took time               *)
C24_Witness ==
    /\ OpenTimers = {"total", "Create", "batch"}
    /\ Len(timing) = 5
    /\ \A k \in DOMAIN timing : timing[k].end > timing[k].start

(* C25: in the PGX program every result of a batch is consumed and the      *)
(* batch closed before anything else happens: outside the step that reads   *)
(* the results (before the next chunk is queued, before the phase's end     *)
(* mark, and when the run has ended on an error result) no result of a      *)
(* batch is outstanding.                                                    *)
C25_BatchResultsConsumed ==
    pc \notin {"SeedResults", "CreateResults"} => pending.n = 0

(* C26: with BatchSize > 0 and a store that answers every request the run  *)
(* terminates: every completed iteration of the Seed and the Create loop   *)
(* strictly advances the index, and the run eventually reaches Done or     *)
(* aborts with an error.                                                   *)
C26_Terminates ==
    /\ [][(/\ pc \in {"SeedLoop", "SeedResults", "CreateLoop", "CreateResults"}
           /\ pc' \in {"SeedLoop", "CreateLoop"}
           /\ <<pc, seedChunks, createChunks>>' # <<pc, seedChunks, createChunks>>)
              => i' > i]_vars
    /\ <>Ended

(* A run that went through several iterations of both loops is done *)
C26_Witness ==
    /\ pc = "Done"
    /\ cfg.BatchSize > 0
    /\ Len(seedChunks) >= 3
    /\ Len(createChunks) >= 2
    /\ i >= cfg.NewUsersCount

(* C27: every preset of GetBenchmarkConfig has BatchSize > 0, and a run    *)
(* with a preset in which nothing failed deletes exactly DeleteCount rows: *)
(* Delete reports DeleteCount and the final table has                      *)
(* InitialUsersCount - DeleteCount + NewUsersCount rows.                   *)
C27_PresetDeletesDeleteCount ==
    /\ \A preset \in PresetNames : GetBenchmarkConfig(preset).BatchSize > 0
    /\ (/\ pc = "Done"
        /\ failed = {}
        /\ \E preset \in PresetNames : cfg = GetBenchmarkConfig(preset)) =>
            /\ out[5] = Line("Delete", cfg.DeleteCount)
            /\ Len(users) =
                  cfg.InitialUsersCount - cfg.DeleteCount + cfg.NewUsersCount

(* Rows of u that carry a name written by Update *)
Renamed(u) == Cardinality({k \in DOMAIN u : u[k].name.pre \notin {"User_", "New_User_"}})

(* C28: the row count printed by a mutating phase is the number of rows    *)
(* the phase changed in the store: when Update, Delete or Create has       *)
(* printed its result, "Updated n" is the number of rows renamed,          *)
(* "Deleted n" the number of rows removed and "Created n" the number of    *)
(* rows added since the phase started.                                     *)
C28_PrintedCountsAreActual ==
    /\ pc = "DeleteStart" => out[Len(out)].rows = Renamed(users)
    /\ pc = "CreateStart" => out[Len(out)].rows = Len(snap) - Len(users)
    /\ pc = "FinalReadStart" => out[Len(out)].rows = Len(users) - Len(snap)

(* The text the claim describes: "$start, $(start+1), .." with ", " between *)
CommaSpaceList(count, start) ==
    [k \in 1..(IF count = 0 THEN 0 ELSE 2 * count - 1) |->
        IF k % 2 = 1 THEN [dollar |-> start + (k - 1) \div 2] ELSE [sep |-> ", "]]

(* C29: buildPlaceholders(count, start) is the list of the count            *)
(* placeholders $start .. $(start+count-1) in increasing order separated    *)
(* by ", " (buildPlaceholders(3, 1) is "$1, $2, $3"), empty for count = 0,  *)
(* and in the Update and Delete statements of the PQ program it has as many *)
(* placeholders as identifiers are bound.                                   *)
C29_PlaceholderText ==
    /\ buildPlaceholders(0, 1) = <<>>
    /\ (variant = "PQ" /\ pc \in {"UpdateExec", "DeleteExec"}) =>
            LET start == IF pc = "UpdateExec" THEN 2 ELSE 1
                text == buildPlaceholders(Len(ids), start)
            IN  /\ Cardinality(Params(text)) = Len(ids)
                /\ text = CommaSpaceList(Len(ids), start)

====
